---- MODULE Spec2Model ----
(***************************************************************************)
(* Model of src/challenges/restaurant_ratings.py: the retry decorator      *)
(* retry_transient_errors, the page fetch api_call, the aggregation        *)
(* get_restaurant_data and the selection of get_highest_rated_restaurants. *)
(*                                                                         *)
(* Time is counted in seconds.  api_call is decorated with                 *)
(* exponential_backoff_factor = 1.0, so every delay is a whole number.     *)
(***************************************************************************)
EXTENDS Integers, Sequences, FiniteSets, TLC

\* ---------------------------------------------------------------- bounds
\* Largest total_pages value the server reports.
MaxPages == 3
\* Largest number of records in one page.
MaxPerPage == 2

\* ------------------------------------------------------ program constants
max_attempts == 3
exponential_backoff_factor == 1
TOO_MANY_REQUESTS == 429
INTERNAL_SERVER_ERROR == 500
BAD_GATEWAY == 502
SERVICE_UNAVAILABLE == 503
GATEWAY_TIMEOUT == 504

\* Mutant: 404 is among the retried statuses.
status_codes_with_404 ==
  {404, TOO_MANY_REQUESTS, INTERNAL_SERVER_ERROR, BAD_GATEWAY, GATEWAY_TIMEOUT,
   SERVICE_UNAVAILABLE}

\* Default of the decorator's status_codes argument (api_call passes none).
status_codes ==
  {TOO_MANY_REQUESTS, INTERNAL_SERVER_ERROR, BAD_GATEWAY, GATEWAY_TIMEOUT,
   SERVICE_UNAVAILABLE}

\* Mutant: the wrapper also catches the timeouts.
TRANSIENT_NETWORK_ERRORS_with_timeout ==
  {"ConnectError", "ReadError", "WriteError", "ReadTimeout"}

\* The exception classes the wrapper catches besides HTTPStatusError.
TRANSIENT_NETWORK_ERRORS == {"ConnectError", "ReadError", "WriteError"}

\* --------------------------------------------------------------- the wire
\* A header value is the sequence of its decimal digits; the empty sequence
\* stands for "header absent".  The HTTP contract gives Retry-After in seconds.
NoHeader == <<>>
RetryAfterHeaders == {<<1>>, <<5>>}

\* Statuses the server answers with: success, the five retried statuses, and
\* one other 4xx and one other 5xx.
Statuses == {200, 404, 501} \cup status_codes

\* Exceptions client.get raises: the three caught network errors and a
\* timeout (httpx.ReadTimeout is a TransportError but none of the three).
TransportExceptions == TRANSIENT_NETWORK_ERRORS \cup {"ReadTimeout"}

\* The concurrent fetches draw one status and one exception of each class
\* the wrapper tells apart: success, retried with and without Retry-After
\* handling, not retried.
FanStatuses == {200, 404, TOO_MANY_REQUESTS, SERVICE_UNAVAILABLE}
FanExceptions == {"ConnectError", "ReadTimeout"}

NoBody == [valid |-> FALSE, total_pages |-> 0, data |-> <<>>]

\* The records the server holds for page p when the page has n records: the
\* record <<p, i>> is the i-th record of page p.
PageData(p, n) == [i \in 1..n |-> <<p, i>>]

\* Bodies of a 200 response for page p: malformed JSON, or a document with
\* data (possibly empty) and a total_pages drawn from tps.
Bodies(p, tps) ==
  {NoBody} \cup
  {[valid |-> TRUE, total_pages |-> tp, data |-> PageData(p, n)] :
     tp \in tps, n \in 0..MaxPerPage}

\* What client.get produces for page p: a raised exception ...
RaisedBy(excs) ==
  {[exc |-> e, status |-> 0, retry_after |-> NoHeader, body |-> NoBody] :
     e \in excs}

\* ... or a response.
Responses(p, tps, statuses) ==
  {[exc |-> "none", status |-> s, retry_after |-> h, body |-> b] :
     s \in statuses, h \in {NoHeader} \cup RetryAfterHeaders, b \in Bodies(p, tps)}

\* Only 429 carries Retry-After, only 200 carries a body.
WellFormed(r) ==
  /\ (r.retry_after # NoHeader => r.status = TOO_MANY_REQUESTS)
  /\ (r.body # NoBody => r.status = 200)

ResponsesFor(p, tps, statuses) == {r \in Responses(p, tps, statuses) : WellFormed(r)}

\* ----------------------------------------------------------------- faults
Fault(kind, status, retry_after) ==
  [kind |-> kind, status |-> status, retry_after |-> retry_after]

\* last_exception = None
NoFault == Fault("None", 0, NoHeader)

NoResponse == [total_pages |-> 0, data |-> <<>>]

\* float() of a header value: the number its decimal digits denote.
RECURSIVE float(_)
float(digits) ==
  IF digits = <<>> THEN 0
  ELSE 10 * float(SubSeq(digits, 1, Len(digits) - 1)) + digits[Len(digits)]

\* --------------------------------------------------------------- api_call
\* Mutant: api_call without the check for empty data.
api_call_unchecked(raw) ==
  IF raw.exc # "none"
    THEN [ok |-> FALSE, value |-> NoResponse, fault |-> Fault(raw.exc, 0, NoHeader)]
  ELSE IF raw.status >= 400
    THEN [ok |-> FALSE, value |-> NoResponse,
          fault |-> Fault("HTTPStatusError", raw.status, raw.retry_after)]
  ELSE IF ~raw.body.valid
    THEN [ok |-> FALSE, value |-> NoResponse, fault |-> Fault("DecodeError", 0, NoHeader)]
  ELSE [ok |-> TRUE,
        value |-> [total_pages |-> raw.body.total_pages, data |-> raw.body.data],
        fault |-> NoFault]

\* The undecorated api_call on what client.get produced: it returns an
\* APIResponse or raises.  raise_for_status raises HTTPStatusError for a
\* 4xx/5xx status; the except clause around it catches only CloseError.
api_call(raw) ==
  IF raw.exc # "none"
    THEN [ok |-> FALSE, value |-> NoResponse, fault |-> Fault(raw.exc, 0, NoHeader)]
  ELSE IF raw.status >= 400
    THEN [ok |-> FALSE, value |-> NoResponse,
          fault |-> Fault("HTTPStatusError", raw.status, raw.retry_after)]
  ELSE IF ~raw.body.valid
    THEN [ok |-> FALSE, value |-> NoResponse, fault |-> Fault("DecodeError", 0, NoHeader)]
  ELSE IF raw.body.data = <<>>
    THEN [ok |-> FALSE, value |-> NoResponse, fault |-> Fault("NoDataError", 0, NoHeader)]
  ELSE [ok |-> TRUE,
        value |-> [total_pages |-> raw.body.total_pages, data |-> raw.body.data],
        fault |-> NoFault]

\* ---------------------------------------------------------------- wrapper
\* One call of the wrapper: where it is suspended (pc), its locals attempt
\* and last_exception and the duration of the sleep it is in; once it is over
\* only what it returned or raised is left.
NoTask ==
  [pc |-> "none", attempt |-> 0, last_exception |-> NoFault, sleeping |-> 0,
   value |-> NoResponse, raised |-> NoFault]

\* Mutant: the delay grows linearly with the attempt.
Delay_Linear(attempt) == exponential_backoff_factor * attempt

\* delay = exponential_backoff_factor * (2**attempt)
Delay(attempt) == exponential_backoff_factor * (2 ^ attempt)

\* First loop iteration up to the await of func.
StartCall == [NoTask EXCEPT !.pc = "request", !.attempt = 1]

Return(t, value) == [NoTask EXCEPT !.pc = "returned", !.value = value]

Raise(t, fault) == [NoTask EXCEPT !.pc = "raised", !.raised = fault]

\* Mutant: the statement after the loop always raises MaxAttemptsFailed.
RaiseAfterLoop_Wrapped(t) == Raise(t, Fault("MaxAttemptsFailed", 0, NoHeader))

\* raise last_exception if last_exception else MaxAttemptsFailed(...)
RaiseAfterLoop(t) ==
  Raise(t, IF t.last_exception # NoFault THEN t.last_exception
           ELSE Fault("MaxAttemptsFailed", 0, NoHeader))

\* Mutant: the delay is slept after the last attempt too.
AfterTry_SleepAfterLast(t) ==
  [t EXCEPT !.pc = "sleep_delay", !.sleeping = Delay(t.attempt)]

\* The code after the try statement: sleep the delay when attempts remain,
\* otherwise the loop is over and the statement after it raises.
AfterTry(t) ==
  IF t.attempt < max_attempts
    THEN [t EXCEPT !.pc = "sleep_delay", !.sleeping = Delay(t.attempt)]
    ELSE RaiseAfterLoop(t)

\* headers.get("Retry-After", delay) then float()
RetryAfter(fault, attempt) ==
  IF fault.retry_after = NoHeader THEN Delay(attempt) ELSE float(fault.retry_after)

\* except httpx.HTTPStatusError
OnHTTPStatusError(t, fault) ==
  IF fault.status \in status_codes
    THEN IF t.attempt < max_attempts /\ fault.status = TOO_MANY_REQUESTS
           THEN [t EXCEPT !.last_exception = fault, !.pc = "sleep_retry_after",
                          !.sleeping = RetryAfter(fault, t.attempt)]
           ELSE AfterTry([t EXCEPT !.last_exception = fault])
    ELSE Raise(t, fault)

\* Mutant: NoDataError is handled like a network error.
OnOutcome_RetryNoData(t, out) ==
  IF out.ok THEN Return(t, out.value)
  ELSE IF out.fault.kind \in TRANSIENT_NETWORK_ERRORS \cup {"NoDataError"}
    THEN AfterTry([t EXCEPT !.last_exception = out.fault])
  ELSE IF out.fault.kind = "HTTPStatusError" THEN OnHTTPStatusError(t, out.fault)
  ELSE Raise(t, out.fault)

\* The try statement of one iteration, given how the awaited func ended.
OnOutcome(t, out) ==
  IF out.ok THEN Return(t, out.value)
  ELSE IF out.fault.kind \in TRANSIENT_NETWORK_ERRORS
    THEN AfterTry([t EXCEPT !.last_exception = out.fault])
  ELSE IF out.fault.kind = "HTTPStatusError" THEN OnHTTPStatusError(t, out.fault)
  ELSE Raise(t, out.fault)

\* asyncio.sleep(retry_after) is over: the code after the try statement runs.
AfterRetryAfterSleep(t) == AfterTry(t)

\* Mutant: a retry loop that does not count its attempts.
NextIteration_Uncounted(t) ==
  [t EXCEPT !.pc = "request", !.last_exception = NoFault, !.sleeping = 0]

\* asyncio.sleep(delay) is over: the next iteration runs up to the await.
NextIteration(t) ==
  [t EXCEPT !.pc = "request", !.attempt = t.attempt + 1,
            !.last_exception = NoFault, !.sleeping = 0]

\* -------------------------------------------------------------- the state
VARIABLES
  tasks,       \* page number -> frame of the wrapper fetching that page
  agg_pc,      \* where get_restaurant_data is: "page1", "gather", "returned", "raised"
  response,    \* get_restaurant_data's local response (page 1's APIResponse)
  outer,       \* the future asyncio.gather returned
  result,      \* the list get_restaurant_data returned
  error,       \* the exception get_restaurant_data raised
  client,      \* the httpx.AsyncClient: "open" or "closed"
  loop,        \* the event loop: "running" or "closed"
  done_order,  \* pages 2.. in the order their fetches returned
  first_failed, \* the page 2.. whose fetch was the first to raise (0: none)
  obs,         \* the page whose fetch is observed attempt by attempt (0: none)
  hist,        \* observed fetch: what each attempt's api_call produced
  sleeps,      \* observed fetch: every asyncio.sleep it made, <<attempt, seconds>>
  sel_pc,      \* where get_highest_rated_restaurants is: "idle", "fetched", "done"
  data,        \* get_highest_rated_restaurants' local data
  limit,       \* its argument limit
  names,       \* the list of names it returned
  given,       \* the records as get_restaurant_data handed them over
  calls,       \* overlapping calls of get_restaurant_data seen at their pools
  http2        \* whether the server and the clients have agreed on HTTP/2

selVars == <<sel_pc, data, limit, names, given>>

poolVars == <<calls, http2>>

progVars ==
  <<tasks, agg_pc, response, outer, result, error, client, loop, done_order,
    first_failed, obs, hist, sleeps>>

vars ==
  <<tasks, agg_pc, response, outer, result, error, client, loop, done_order,
    first_failed, obs, hist, sleeps, sel_pc, data, limit, names, given,
    calls, http2>>

Pages == 1..MaxPages

NoOuter == [state |-> "none", exc |-> NoFault]

\* Mutant: the fetches of all pages are issued together with page 1's.
Started_AllAtOnce ==
  /\ tasks = [p \in Pages |-> StartCall]
  /\ agg_pc = "page1"
  /\ response = NoResponse
  /\ outer = NoOuter
  /\ result = <<>>
  /\ error = NoFault
  /\ client = "open"
  /\ loop = "running"
  /\ done_order = <<>>
  /\ first_failed = 0
  /\ hist = <<>>
  /\ sleeps = <<>>

\* get_restaurant_data has opened the client and awaits api_call(page=1).
Started ==
  /\ tasks = [p \in Pages |-> IF p = 1 THEN StartCall ELSE NoTask]
  /\ agg_pc = "page1"
  /\ response = NoResponse
  /\ outer = NoOuter
  /\ result = <<>>
  /\ error = NoFault
  /\ client = "open"
  /\ loop = "running"
  /\ done_order = <<>>
  /\ first_failed = 0
  /\ hist = <<>>
  /\ sleeps = <<>>

\* get_highest_rated_restaurants is awaiting get_restaurant_data.
NotSelecting ==
  /\ sel_pc = "idle"
  /\ data = <<>>
  /\ limit = 0
  /\ names = <<>>
  /\ given = <<>>

\* The calls of get_restaurant_data that overlap in one process.
Calls == {1, 2}

NoCall == [pc |-> "none", total_pages |-> 0, queued |-> 0, in_flight |-> 0, answered |-> 0]

\* No call is followed at its pool.
NotPooling ==
  /\ calls = [c \in Calls |-> NoCall]
  /\ http2 = FALSE

Init == Started /\ obs = 0 /\ NotSelecting /\ NotPooling

\* ---------------------------------------------------- get_restaurant_data
RECURSIVE extend_all(_, _)
\* for page in page_data: response.data.extend(page.data)
extend_all(records, page_data) ==
  IF page_data = <<>> THEN records
  ELSE extend_all(records \o Head(page_data).data, Tail(page_data))

\* Mutant: the results come in the order the fetches returned.
gather_results_as_completed(ts, n) == [i \in 1..(n - 1) |-> ts[done_order[i]].value]

\* What gather hands back: the tasks' results in the order of its arguments,
\* the pages 2..n.
gather_results(ts, n) == [i \in 1..(n - 1) |-> ts[i + 1].value]

\* Mutant: the range runs one page too far.
fan_out_one_more(ts, n) ==
  [p \in Pages |-> IF p >= 2 /\ p <= n + 1 THEN StartCall ELSE ts[p]]

\* tasks = [api_call(page=page) for page in range(2, response.total_pages + 1)]
fan_out(ts, n) == [p \in Pages |-> IF p >= 2 /\ p <= n THEN StartCall ELSE ts[p]]

\* The pages fetched concurrently.
Fanned == {p \in Pages : p >= 2 /\ p <= response.total_pages}

\* Mutant: every exception of a child replaces the outer future's exception.
gather_done_last_wins(o, ts, n, p) ==
  IF o.state \notin {"pending", "exception"} THEN o
  ELSE IF ts[p].pc = "raised" THEN [state |-> "exception", exc |-> ts[p].raised]
  ELSE IF o.state = "pending" /\ \A q \in 2..n : ts[q].pc = "returned"
    THEN [state |-> "result", exc |-> NoFault]
  ELSE o

\* Mutant: gather collects exceptions as results (return_exceptions=True).
gather_done_return_exceptions(o, ts, n, p) ==
  IF o.state # "pending" THEN o
  ELSE IF \A q \in 2..n : ts[q].pc \in {"returned", "raised"}
    THEN [state |-> "result", exc |-> NoFault]
  ELSE o

\* Mutant: the child's exception is wrapped in a group, as a TaskGroup does.
gather_done_exception_group(o, ts, n, p) ==
  IF o.state # "pending" THEN o
  ELSE IF ts[p].pc = "raised"
    THEN [state |-> "exception", exc |-> Fault("ExceptionGroup", 0, NoHeader)]
  ELSE IF \A q \in 2..n : ts[q].pc = "returned" THEN [state |-> "result", exc |-> NoFault]
  ELSE o

\* gather's done callback for one child: the first exception ends the outer
\* future, and so does the last result; a finished outer future stays as it is.
gather_done(o, ts, n, p) ==
  IF o.state # "pending" THEN o
  ELSE IF ts[p].pc = "raised" THEN [state |-> "exception", exc |-> ts[p].raised]
  ELSE IF \A q \in 2..n : ts[q].pc = "returned" THEN [state |-> "result", exc |-> NoFault]
  ELSE o

\* Mutant: the client is closed by a call at the end of the function only.
close_before_return(pc) == IF pc = "returned" THEN "closed" ELSE "open"

\* Leaving the async with block, by return or by exception, closes the
\* client and with it every connection of its pool.
async_with_exit(pc) == "closed"

\* The frame of page p has taken a step and is now t.  For page 1 the awaiting
\* get_restaurant_data continues in the same step; for a later page gather's
\* callback runs.
Settle(p, t) ==
  LET ts == [tasks EXCEPT ![p] = t] IN
  IF p = 1 THEN
    IF t.pc = "returned" THEN
      IF t.value.total_pages > 1 THEN
        /\ tasks' = fan_out(ts, t.value.total_pages)
        /\ response' = t.value
        /\ outer' = [state |-> "pending", exc |-> NoFault]
        /\ agg_pc' = "gather"
        /\ UNCHANGED <<result, error, client, loop, done_order, first_failed>>
      ELSE
        /\ tasks' = ts
        /\ response' = t.value
        /\ result' = t.value.data
        /\ agg_pc' = "returned"
        /\ client' = async_with_exit("returned")
        /\ UNCHANGED <<outer, error, loop, done_order, first_failed>>
    ELSE IF t.pc = "raised" THEN
      /\ tasks' = ts
      /\ error' = t.raised
      /\ agg_pc' = "raised"
      /\ client' = async_with_exit("raised")
      /\ UNCHANGED <<response, outer, result, loop, done_order, first_failed>>
    ELSE
      /\ tasks' = ts
      /\ UNCHANGED <<agg_pc, response, outer, result, error, client, loop, done_order, first_failed>>
  ELSE
    /\ tasks' = ts
    /\ outer' = IF t.pc \in {"returned", "raised"}
                  THEN gather_done(outer, ts, response.total_pages, p) ELSE outer
    /\ done_order' = IF t.pc = "returned" THEN Append(done_order, p) ELSE done_order
    /\ first_failed' = IF t.pc = "raised" /\ first_failed = 0 THEN p ELSE first_failed
    /\ UNCHANGED <<agg_pc, response, result, error, client, loop>>

Running(p) == loop = "running" /\ tasks[p].pc # "none"

\* client.get of page p's current attempt answers with a response, over a
\* connection of the open client.
ReceiveResponse(p) ==
  /\ Running(p)
  /\ tasks[p].pc = "request"
  /\ client = "open"
  /\ \E raw \in ResponsesFor(p, 1..MaxPages, IF p = 1 THEN Statuses ELSE FanStatuses) :
       Settle(p, OnOutcome(tasks[p], api_call(raw)))
  /\ UNCHANGED <<selVars, poolVars>>
  /\ UNCHANGED <<obs, hist, sleeps>>

\* client.get of page p's current attempt raises.
TransportRaises(p) ==
  /\ Running(p)
  /\ tasks[p].pc = "request"
  /\ \E raw \in RaisedBy(IF p = 1 THEN TransportExceptions ELSE FanExceptions) : Settle(p, OnOutcome(tasks[p], api_call(raw)))
  /\ UNCHANGED <<selVars, poolVars>>
  /\ UNCHANGED <<obs, hist, sleeps>>

\* The sleep of the Retry-After value is over.
WakeRetryAfter(p) ==
  /\ Running(p)
  /\ tasks[p].pc = "sleep_retry_after"
  /\ Settle(p, AfterRetryAfterSleep(tasks[p]))
  /\ UNCHANGED <<selVars, poolVars>>
  /\ UNCHANGED <<obs, hist, sleeps>>

\* A closed client refuses to send: client.get raises RuntimeError at once.
ClosedClient == [exc |-> "RuntimeError", status |-> 0, retry_after |-> NoHeader, body |-> NoBody]

\* The sleep of the backoff delay is over: the next attempt is issued.
WakeDelay(p) ==
  /\ Running(p)
  /\ tasks[p].pc = "sleep_delay"
  /\ IF client = "open"
       THEN Settle(p, NextIteration(tasks[p]))
       ELSE Settle(p, OnOutcome(NextIteration(tasks[p]), api_call(ClosedClient)))
  /\ UNCHANGED <<selVars, poolVars>>
  /\ UNCHANGED <<obs, hist, sleeps>>

\* get_restaurant_data resumes from await asyncio.gather: it raises the
\* exception of the outer future, or extends response.data and returns it.
\* Either way the async with block closes the client.
GatherResumes ==
  /\ loop = "running"
  /\ agg_pc = "gather"
  /\ outer.state \in {"result", "exception"}
  /\ IF outer.state = "result"
       THEN /\ result' = extend_all(response.data, gather_results(tasks, response.total_pages))
            /\ agg_pc' = "returned"
            /\ error' = error
       ELSE /\ error' = outer.exc
            /\ agg_pc' = "raised"
            /\ result' = result
  /\ client' = async_with_exit(agg_pc')
  /\ UNCHANGED <<selVars, poolVars>>
  /\ UNCHANGED <<tasks, response, outer, loop, done_order, first_failed, obs, hist, sleeps>>

\* asyncio.run: once the main coroutine is over, the tasks still pending are
\* cancelled and the loop is closed.
cancel_pending(ts) ==
  [p \in Pages |->
     IF ts[p].pc \in {"request", "sleep_retry_after", "sleep_delay"}
       THEN [NoTask EXCEPT !.pc = "cancelled"] ELSE ts[p]]

EventLoopShutdown ==
  /\ loop = "running"
  /\ agg_pc \in {"returned", "raised"}
  /\ loop' = "closed"
  /\ tasks' = cancel_pending(tasks)
  /\ UNCHANGED <<selVars, poolVars>>
  /\ UNCHANGED <<agg_pc, response, outer, result, error, client, done_order, first_failed, obs, hist, sleeps>>

Next ==
  \/ \E p \in Pages : ReceiveResponse(p)
  \/ \E p \in Pages : TransportRaises(p)
  \/ \E p \in Pages : WakeRetryAfter(p)
  \/ \E p \in Pages : WakeDelay(p)
  \/ GatherResumes
  \/ EventLoopShutdown

Spec == Init /\ [][Next]_vars

\* ------------------------------------------- the program while the loop runs
\* The same program as long as the event loop runs it: every request that
\* was issued is answered or raises, every sleep ends, and a coroutine that
\* can resume does resume.
FetchStep(p) ==
  \/ TransportRaises(p)
  \/ WakeRetryAfter(p)
  \/ WakeDelay(p)
  \/ ReceiveResponse(p)

NextRunning ==
  \/ \E p \in Pages : FetchStep(p)
  \/ GatherResumes

SpecRunning ==
  /\ Init
  /\ [][NextRunning]_vars
  /\ WF_vars(NextRunning)

\* ------------------------------------------------- one fetch, observed
\* The same program with one page fetch observed attempt by attempt: the
\* server answers the observed page with anything, and every other page with
\* a well-formed full page at once.  hist and sleeps record what the
\* observed fetch was given and how long it slept.
InitFetch == Started /\ obs \in Pages /\ NotSelecting /\ NotPooling

\* total_pages values the server reports for page p here: page 1 reports at
\* least obs pages, a later page what page 1 reported.
FetchTotals(p) == IF p = 1 THEN {tp \in Pages : tp >= obs} ELSE {response.total_pages}

ObservedResponse ==
  /\ Running(obs)
  /\ tasks[obs].pc = "request"
  /\ client = "open"
  /\ \E raw \in ResponsesFor(obs, FetchTotals(obs), Statuses) :
       /\ Settle(obs, OnOutcome(tasks[obs], api_call(raw)))
       /\ hist' = Append(hist, api_call(raw))
  /\ UNCHANGED <<selVars, poolVars>>
  /\ UNCHANGED <<obs, sleeps>>

ObservedTransportRaises ==
  /\ Running(obs)
  /\ tasks[obs].pc = "request"
  /\ \E raw \in RaisedBy(TransportExceptions) :
       /\ Settle(obs, OnOutcome(tasks[obs], api_call(raw)))
       /\ hist' = Append(hist, api_call(raw))
  /\ UNCHANGED <<selVars, poolVars>>
  /\ UNCHANGED <<obs, sleeps>>

ObservedWakeRetryAfter ==
  /\ Running(obs)
  /\ tasks[obs].pc = "sleep_retry_after"
  /\ Settle(obs, AfterRetryAfterSleep(tasks[obs]))
  /\ sleeps' = Append(sleeps, <<tasks[obs].attempt, tasks[obs].sleeping>>)
  /\ UNCHANGED <<selVars, poolVars>>
  /\ UNCHANGED <<obs, hist>>

ObservedWakeDelay ==
  /\ Running(obs)
  /\ tasks[obs].pc = "sleep_delay"
  /\ Settle(obs, NextIteration(tasks[obs]))
  /\ sleeps' = Append(sleeps, <<tasks[obs].attempt, tasks[obs].sleeping>>)
  /\ UNCHANGED <<selVars, poolVars>>
  /\ UNCHANGED <<obs, hist>>

OtherResponse(p) ==
  /\ Running(p)
  /\ p # obs
  /\ tasks[p].pc = "request"
  /\ client = "open"
  /\ \E raw \in ResponsesFor(p, FetchTotals(p), {200}) :
       /\ raw.body.valid
       /\ raw.body.data = PageData(p, MaxPerPage)
       /\ Settle(p, OnOutcome(tasks[p], api_call(raw)))
  /\ UNCHANGED <<selVars, poolVars>>
  /\ UNCHANGED <<obs, hist, sleeps>>

NextFetch ==
  \/ ObservedResponse
  \/ ObservedTransportRaises
  \/ ObservedWakeRetryAfter
  \/ ObservedWakeDelay
  \/ \E p \in Pages : OtherResponse(p)
  \/ GatherResumes
  \/ EventLoopShutdown

SpecFetch == InitFetch /\ [][NextFetch]_vars

\* ------------------------------------------ get_highest_rated_restaurants
\* Bounds of the record sequences the selection is run on.
MaxRecords == 3
MaxLimit == 2

\* limit: PositiveInt = 5
default_limit == 5

\* httpx.Limits(max_keepalive_connections=10, max_connections=10)
max_connections == 10

\* Ratings in tenths of a star.
Records ==
  [name : {"A", "B", "C"}, average_rating : {45, 47}, votes : {5, 10, 20}]

RECURSIVE SeqsUpTo(_, _)
\* The sequences over S of length at most n.
SeqsUpTo(S, n) ==
  IF n = 0 THEN {<<>>}
  ELSE LET shorter == SeqsUpTo(S, n - 1) IN
       shorter \cup {Append(q, x) : q \in shorter, x \in S}

Limits == (1..MaxLimit) \cup {default_limit}

\* The state in which get_restaurant_data has handed a non-empty list over.
InitSelect ==
  /\ Started
  /\ obs = 0
  /\ sel_pc = "fetched"
  /\ data \in SeqsUpTo(Records, MaxRecords) \ {<<>>}
  /\ given = data
  /\ limit \in Limits
  /\ names = <<>>
  /\ NotPooling

RECURSIVE insert_desc(_, _)
\* x put behind the last record of the descending sequence q whose rating is
\* not below x's.
insert_desc(q, x) ==
  IF q = <<>> THEN <<x>>
  ELSE IF Head(q).average_rating >= x.average_rating
    THEN <<Head(q)>> \o insert_desc(Tail(q), x)
    ELSE <<x>> \o q

RECURSIVE insert_asc(_, _)
insert_asc(q, x) ==
  IF q = <<>> THEN <<x>>
  ELSE IF Head(q).average_rating <= x.average_rating
    THEN <<Head(q)>> \o insert_asc(Tail(q), x)
    ELSE <<x>> \o q

RECURSIVE sort_ascending(_)
\* Mutant: the sort without reverse=True.
sort_ascending(q) ==
  IF q = <<>> THEN <<>>
  ELSE insert_asc(sort_ascending(SubSeq(q, 1, Len(q) - 1)), q[Len(q)])

RECURSIVE insert_before_ties(_, _)
insert_before_ties(q, x) ==
  IF q = <<>> THEN <<x>>
  ELSE IF Head(q).average_rating > x.average_rating
    THEN <<Head(q)>> \o insert_before_ties(Tail(q), x)
    ELSE <<x>> \o q

RECURSIVE sort_reversing_ties(_)
\* Mutant: a descending sort that is not stable, records of equal rating
\* come out in reverse order.
sort_reversing_ties(q) ==
  IF q = <<>> THEN <<>>
  ELSE insert_before_ties(sort_reversing_ties(SubSeq(q, 1, Len(q) - 1)), q[Len(q)])

RECURSIVE sort_by_rating(_)
\* data.sort(key=lambda m: m.average_rating, reverse=True): a stable sort,
\* records of equal rating keep their order.
sort_by_rating(q) ==
  IF q = <<>> THEN <<>>
  ELSE insert_desc(sort_by_rating(SubSeq(q, 1, Len(q) - 1)), q[Len(q)])

IsHighest(sorted, x) == x.average_rating = sorted[1].average_rating

\* [x.name for x in data if x.average_rating == highest_rating][:limit]
highest_names(sorted, n) ==
  LET tied == SelectSeq(sorted, LAMBDA x : IsHighest(sorted, x))
      kept == SubSeq(tied, 1, IF n < Len(tied) THEN n ELSE Len(tied))
  IN [i \in 1..Len(kept) |-> kept[i].name]

\* The statements of get_highest_rated_restaurants after the await.
SelectHighest ==
  /\ sel_pc = "fetched"
  /\ data' = sort_by_rating(data)
  /\ names' = highest_names(sort_by_rating(data), limit)
  /\ sel_pc' = "done"
  /\ UNCHANGED <<limit, given>>
  /\ UNCHANGED <<progVars, poolVars>>

\* The same statements applied once more, to the list the first application
\* left sorted in place.
SelectAgain ==
  /\ sel_pc = "done"
  /\ data' = sort_by_rating(data)
  /\ names' = highest_names(sort_by_rating(data), limit)
  /\ sel_pc' = "again"
  /\ UNCHANGED <<limit, given>>
  /\ UNCHANGED <<progVars, poolVars>>

NextSelect ==
  \/ SelectHighest
  \/ SelectAgain

SpecSelect == InitSelect /\ [][NextSelect]_vars

\* ------------------------------------------- the calls at their pools
\* Overlapping calls of get_restaurant_data seen at the connection pools of
\* their clients, in runs without faults: each call opens its own client,
\* fetches page 1 and then hands the requests of all the other pages to its
\* client at once.  Fetches are told apart by number only.  Over HTTP/1.1 a
\* connection carries one request at a time and the pool opens at most
\* max_connections of them; over HTTP/2, which the client enables, the
\* requests are multiplexed over the connection page 1's request opened.
PoolPages == 12

\* Mutant: a client without the limits (the pool opens what is asked for).
MayConnect_Unlimited(n) == TRUE

\* The pool of a client with n connections busy may use one more.
MayConnect(n) == n < max_connections

\* async with httpx.AsyncClient(...) as client, and the request of page 1
\* on the first connection of the new pool.
OpenedCall ==
  [pc |-> "page1", total_pages |-> 0, queued |-> 0, in_flight |-> 1, answered |-> 0]

InitPool ==
  /\ Started
  /\ obs = 0
  /\ NotSelecting
  /\ http2 \in BOOLEAN
  /\ calls = [c \in Calls |-> OpenedCall]

\* Page 1 is answered: the call returns, or creates the fetches of the pages
\* 2..total_pages, whose requests wait at the pool.
PageOneAnswered(c) ==
  /\ calls[c].pc = "page1"
  /\ \E n \in 1..PoolPages :
       calls' = [calls EXCEPT ![c] =
         [pc |-> IF n > 1 THEN "gather" ELSE "returned",
          total_pages |-> n, queued |-> n - 1, in_flight |-> 0, answered |-> 1]]
  /\ UNCHANGED <<http2, progVars, selVars>>

\* The pool of call c's client sends a waiting request: over HTTP/2 on the
\* connection it has, otherwise on a connection that is not busy, which it
\* may have to open.
RequestSent(c) ==
  /\ calls[c].pc = "gather"
  /\ calls[c].queued > 0
  /\ http2 \/ MayConnect(calls[c].in_flight)
  /\ calls' = [calls EXCEPT ![c].queued = @ - 1, ![c].in_flight = @ + 1]
  /\ UNCHANGED <<http2, progVars, selVars>>

\* A request of call c is answered and its fetch returns.
RequestAnswered(c) ==
  /\ calls[c].pc = "gather"
  /\ calls[c].in_flight > 0
  /\ calls' = [calls EXCEPT ![c].in_flight = @ - 1, ![c].answered = @ + 1]
  /\ UNCHANGED <<http2, progVars, selVars>>

\* Every fetch returned: the call resumes from gather, returns and closes
\* its client.
CallReturns(c) ==
  /\ calls[c].pc = "gather"
  /\ calls[c].answered = calls[c].total_pages
  /\ calls' = [calls EXCEPT ![c].pc = "returned"]
  /\ UNCHANGED <<http2, progVars, selVars>>

NextPool ==
  \/ \E c \in Calls : PageOneAnswered(c)
  \/ \E c \in Calls : RequestSent(c)
  \/ \E c \in Calls : RequestAnswered(c)
  \/ \E c \in Calls : CallReturns(c)

SpecPool == InitPool /\ [][NextPool]_vars

\* ================================================================= claims
\* Vocabulary of the claims about the observed fetch.
Observed == tasks[obs]

Attempts == Len(hist)

LastOutcome == hist[Len(hist)]

\* A connect/read/write network fault, or status 429, 500, 502, 503 or 504.
TransientFault(f) ==
  \/ f.kind \in {"ConnectError", "ReadError", "WriteError"}
  \/ f.kind = "HTTPStatusError" /\ f.status \in {429, 500, 502, 503, 504}

\* Any other 4xx/5xx status, or a decode/validation fault.
FatalFault(f) ==
  \/ f.kind = "HTTPStatusError" /\ f.status \notin {429, 500, 502, 503, 504}
  \/ f.kind = "DecodeError"

AllTransient == \A i \in 1..Len(hist) : TransientFault(hist[i].fault)

\* Attempt i + 1 has been issued.
FollowedByAttempt(i) ==
  \/ i < Len(hist)
  \/ Observed.pc = "request" /\ Observed.attempt > i

RECURSIVE SleptAfter(_, _)
\* Seconds slept after attempt k among the sleeps ss.
SleptAfter(ss, k) ==
  IF ss = <<>> THEN 0
  ELSE (IF Head(ss)[1] = k THEN Head(ss)[2] ELSE 0) + SleptAfter(Tail(ss), k)

\* The wait after attempt k: the sleeps made and the one under way.
WaitAfter(k) ==
  SleptAfter(sleeps, k)
    + (IF Observed.pc \in {"sleep_retry_after", "sleep_delay"} /\ Observed.attempt = k
         THEN Observed.sleeping ELSE 0)

\* C1: a fetch never makes more than max_attempts attempts; when every
\* attempt failed with a retryable fault, the fetch ends after exactly
\* max_attempts attempts raising the fault of the last attempt unchanged;
\* MaxAttemptsFailed is raised only when the last attempt recorded no fault.
C1_ExhaustionRaisesLastFault ==
  /\ Attempts <= max_attempts
  /\ (AllTransient /\ Attempts = max_attempts) =>
       /\ Observed.pc = "raised"
       /\ Observed.raised = LastOutcome.fault
  /\ (AllTransient /\ Observed.pc \in {"returned", "raised"}) => Attempts = max_attempts
  /\ Observed.raised.kind = "MaxAttemptsFailed" => ~TransientFault(LastOutcome.fault)

\* C1 witness: three retryable faults of different kinds, the last one raised.
C1_Witness ==
  /\ Attempts = max_attempts
  /\ AllTransient
  /\ hist[1].fault.kind = "ConnectError"
  /\ hist[2].fault.status = 429
  /\ hist[3].fault.status = 503
  /\ Observed.pc = "raised"
  /\ Observed.raised.status = 503

\* C2: an attempt is followed by another only if it failed with a retryable
\* fault; an attempt that failed with another 4xx/5xx status or a decode
\* fault is the last one, the fetch raises that fault, and nothing is slept
\* after it.
C2_FaultClassification ==
  \A i \in 1..Len(hist) :
    /\ FollowedByAttempt(i) => TransientFault(hist[i].fault)
    /\ FatalFault(hist[i].fault) =>
         /\ i = Len(hist)
         /\ Observed.pc = "raised"
         /\ Observed.raised = hist[i].fault
         /\ WaitAfter(i) = 0

\* C2 witness: a retried 502 followed by a 404 that ends the fetch.
C2_Witness ==
  /\ Attempts = 2
  /\ hist[1].fault.status = 502
  /\ hist[2].fault.status = 404
  /\ Observed.pc = "raised"
  /\ Observed.raised.status = 404

\* C3 (as claimed): once the attempt after a 429 with Retry-After: R has been
\* issued, the time waited in between is exactly R.
C3_RetryAfterVerbatim ==
  \A i \in 1..Len(hist) :
    (/\ FollowedByAttempt(i)
     /\ hist[i].fault.status = 429
     /\ hist[i].fault.retry_after # NoHeader)
      => WaitAfter(i) = float(hist[i].fault.retry_after)

\* The page's fetch returned and the aggregation is not failing.
AggregationSucceeding ==
  /\ agg_pc # "raised"
  /\ error = NoFault
  /\ outer.state # "exception"
  /\ (agg_pc = "gather" /\ \A p \in Fanned : tasks[p].pc = "returned")
       => outer.state = "result"
  /\ loop = "closed" => agg_pc = "returned"

FailedTwiceWith503 ==
  /\ Attempts = 3
  /\ hist[1].fault.status = 503
  /\ hist[2].fault.status = 503
  /\ hist[3].ok

\* C4: after 503, 503, success the fetch has returned that third response
\* after exactly 3 attempts, it slept exponential_backoff_factor * 2^k after
\* the k-th attempt and nothing else, and get_restaurant_data succeeds.
C4_BackoffThenSuccess ==
  FailedTwiceWith503 =>
    /\ Observed.pc = "returned"
    /\ Observed.value = hist[3].value
    /\ sleeps = << <<1, exponential_backoff_factor * 2>>,
                   <<2, exponential_backoff_factor * 4>> >>
    /\ WaitAfter(2) = 2 * WaitAfter(1)
    /\ AggregationSucceeding

\* C4 witness: a later page answered 503, 503, success and the aggregation
\* returned.
C4_Witness ==
  /\ obs = 2
  /\ FailedTwiceWith503
  /\ agg_pc = "returned"

\* C5: an attempt that gets an empty data sequence is the last one: the
\* fetch raises NoDataError, nothing is slept after it (so an empty first
\* answer means one attempt and no sleep at all), whatever the page; and
\* get_restaurant_data fails with NoDataError.
C5_EmptyPageIsFatal ==
  \A i \in 1..Len(hist) :
    hist[i].fault.kind = "NoDataError" =>
      /\ i = Len(hist)
      /\ Observed.pc = "raised"
      /\ Observed.raised.kind = "NoDataError"
      /\ WaitAfter(i) = 0
      /\ (i = 1 => sleeps = <<>>)
      /\ agg_pc # "returned"
      /\ result = <<>>
      /\ (obs = 1 => agg_pc = "raised" /\ error.kind = "NoDataError")
      /\ (obs > 1 => outer.state = "exception" /\ outer.exc.kind = "NoDataError")
      /\ (agg_pc = "raised" => error.kind = "NoDataError")

\* C5 witness: a later page's first answer is empty and get_restaurant_data
\* has raised NoDataError.
C5_Witness ==
  /\ obs > 1
  /\ Attempts = 1
  /\ hist[1].fault.kind = "NoDataError"
  /\ agg_pc = "raised"
  /\ error.kind = "NoDataError"

\* Vocabulary of the claims about the aggregation.
RECURSIVE PagesInOrder(_)
\* Records of the pages 1..n as their fetches returned them, page after page.
PagesInOrder(n) == IF n = 0 THEN <<>> ELSE PagesInOrder(n - 1) \o tasks[n].value.data

RECURSIVE SumOfSizes(_)
SumOfSizes(n) == IF n = 0 THEN 0 ELSE SumOfSizes(n - 1) + Len(tasks[n].value.data)

\* Record <<p, i>> comes before <<q, j>> in page-ascending, within-page order.
Precedes(a, b) == a[1] < b[1] \/ (a[1] = b[1] /\ a[2] < b[2])

\* C6: whenever get_restaurant_data returned, the sequence is page 1's
\* records followed by those of pages 2..total_pages in ascending page
\* number, each page's order kept, whatever order the fetches returned in;
\* its length is the sum of the page sizes.
C6_PageAscendingOrder ==
  agg_pc = "returned" =>
    /\ result = PagesInOrder(response.total_pages)
    /\ Len(result) = SumOfSizes(response.total_pages)
    /\ \A j, k \in 1..Len(result) : j < k => Precedes(result[j], result[k])

\* C6 witness: three pages returned, page 3's fetch before page 2's.
C6_Witness ==
  /\ agg_pc = "returned"
  /\ response.total_pages = 3
  /\ done_order = <<3, 2>>
  /\ Len(result) > 3

\* C7 (as claimed): once a concurrent fetch has failed, no other fetch of the
\* call issues a further attempt or begins a further sleep.
C7_SiblingsCancelled ==
  [][outer.state = "exception" =>
       \A p \in Pages :
         tasks'[p] # tasks[p] =>
           tasks'[p].pc \notin {"request", "sleep_retry_after", "sleep_delay"}]_vars

\* C7 (amended): when a concurrent fetch fails, get_restaurant_data fails
\* with the fault of the first fetch that failed; the failure cancels no
\* other fetch: as long as the event loop runs no fetch is cancelled.
C7_FirstFailureWins ==
  /\ first_failed # 0 =>
       /\ first_failed \in Fanned
       /\ tasks[first_failed].pc = "raised"
       /\ outer = [state |-> "exception", exc |-> tasks[first_failed].raised]
       /\ agg_pc \in {"gather", "raised"}
       /\ (agg_pc = "raised" => error = tasks[first_failed].raised)
       /\ result = <<>>
  /\ loop = "running" => \A p \in Pages : tasks[p].pc # "cancelled"

\* C7 witness: page 2's fetch failed first, get_restaurant_data has raised
\* its fault and closed the client, and page 3's fetch, not cancelled, woke
\* up afterwards and was refused by the closed client.
C7_Witness ==
  /\ first_failed = 2
  /\ agg_pc = "raised"
  /\ error.status = 404
  /\ loop = "running"
  /\ tasks[3].pc = "raised"
  /\ tasks[3].raised.kind = "RuntimeError"

\* C8: when get_restaurant_data returned, every page 1..total_pages was
\* fetched successfully and all its records are in the result; when a fetch
\* of the call ended in a fault, nothing is returned.
C8_NoPartialResult ==
  /\ agg_pc = "returned" =>
       \A p \in 1..response.total_pages :
         /\ tasks[p].pc = "returned"
         /\ \A i \in 1..Len(tasks[p].value.data) :
              \E k \in 1..Len(result) : result[k] = tasks[p].value.data[i]
  /\ (\E p \in Pages : tasks[p].pc = "raised") =>
       /\ agg_pc # "returned"
       /\ result = <<>>

\* C8 witness: page 2 was fetched, page 3 failed, and get_restaurant_data
\* raised without returning page 1's and page 2's records.
C8_Witness ==
  /\ agg_pc = "raised"
  /\ tasks[1].pc = "returned"
  /\ tasks[2].pc = "returned"
  /\ tasks[3].pc = "raised"
  /\ result = <<>>

\* C9 (as claimed): get_restaurant_data does not return when a later page
\* reported a total_pages different from page 1's.
C9_InconsistentPaginationFails ==
  agg_pc = "returned" =>
    \A p \in Fanned : tasks[p].value.total_pages = response.total_pages

\* Vocabulary of the claims about the selection.
MaxRating(q) ==
  CHOOSE r \in {q[i].average_rating : i \in 1..Len(q)} :
    \A i \in 1..Len(q) : q[i].average_rating <= r

AtMaximum(q) == {i \in 1..Len(q) : q[i].average_rating = MaxRating(q)}

Min(a, b) == IF a < b THEN a ELSE b

\* C10: for a non-empty record sequence and a limit >= 1 the selection
\* returns at least 1 and at most limit names, min(limit, number of records
\* at the maximum rating) of them, each the name of a given record whose
\* rating is the maximum.
C10_BetweenOneAndLimitAtMaximum ==
  sel_pc = "done" =>
    /\ Len(names) >= 1
    /\ Len(names) <= limit
    /\ Len(names) = Min(limit, Cardinality(AtMaximum(given)))
    /\ \A k \in 1..Len(names) : \E i \in AtMaximum(given) : given[i].name = names[k]

\* C10 witness: more records at the maximum than the limit, the first given
\* record below the maximum.
C10_Witness ==
  /\ sel_pc = "done"
  /\ given[1].average_rating < MaxRating(given)
  /\ Cardinality(AtMaximum(given)) > limit
  /\ Len(names) = limit

\* Position of a name in alphabetical order.
NameRank(n) == CASE n = "A" -> 1 [] n = "B" -> 2 [] OTHER -> 3

\* Record a goes before record b by descending votes, then ascending name.
MoreVotesThenName(a, b) ==
  \/ a.votes > b.votes
  \/ a.votes = b.votes /\ NameRank(a.name) <= NameRank(b.name)

\* The records of q at its maximum rating, in the order of q.
TiedInOrder(q) == SelectSeq(q, LAMBDA x : x.average_rating = MaxRating(q))

\* C11 (as claimed): the names returned are those of the records at the
\* maximum rating ordered by descending votes, then ascending name, cut to
\* the limit: every returned record goes before the next one and before
\* every record at the maximum that was left out.
C11_TiesByVotesThenName ==
  sel_pc = "done" =>
    \E kept \in SeqsUpTo(AtMaximum(given), Len(names)) :
      /\ Len(kept) = Len(names)
      /\ \A j, k \in 1..Len(kept) : j # k => kept[j] # kept[k]
      /\ \A k \in 1..Len(kept) : given[kept[k]].name = names[k]
      /\ \A j, k \in 1..Len(kept) :
           j < k => MoreVotesThenName(given[kept[j]], given[kept[k]])
      /\ \A k \in 1..Len(kept) :
           \A i \in AtMaximum(given) \ {kept[j] : j \in 1..Len(kept)} :
             MoreVotesThenName(given[kept[k]], given[i])

\* C11 (amended): the names returned are those of the records at the maximum
\* rating in the order in which the records were given, cut to the limit;
\* votes and names play no part in the order.
C11_TiesInGivenOrder ==
  sel_pc = "done" =>
    /\ Len(names) = Min(limit, Len(TiedInOrder(given)))
    /\ \A k \in 1..Len(names) : names[k] = TiedInOrder(given)[k].name

\* C11 witness: A(4.7, 10 votes), B(4.7, 20 votes), C(4.5, 5 votes) given in
\* that order with limit 5: the names come back as A, B.
C11_Witness ==
  /\ sel_pc = "done"
  /\ limit = 5
  /\ given = << [name |-> "A", average_rating |-> 47, votes |-> 10],
                [name |-> "B", average_rating |-> 47, votes |-> 20],
                [name |-> "C", average_rating |-> 45, votes |-> 5] >>
  /\ names = <<"A", "B">>

\* C12: applying the selection again with the same limit to the list a
\* previous application left sorted in place returns the same names in the
\* same order and leaves the list as it was.
C12_SelectionIdempotent ==
  [][sel_pc = "done" => names' = names /\ data' = data]_vars

\* C12 witness: the selection was applied a second time to a list the first
\* application had to reorder, with more records at the maximum than the
\* limit and different names among them.
C12_Witness ==
  /\ sel_pc = "again"
  /\ data # given
  /\ Cardinality(AtMaximum(given)) > limit
  /\ \E i, j \in AtMaximum(given) : given[i].name # given[j].name
  /\ Len(names) = limit

\* Vocabulary of the claims about timeouts.
TimedOut(i) == hist[i].fault.kind = "ReadTimeout"

\* C13 (as claimed): an attempt that timed out while attempts remain is
\* treated like a connect failure: the fetch waits the backoff delay and
\* issues the next attempt.
C13_TimeoutIsRetried ==
  \A i \in 1..Len(hist) :
    (TimedOut(i) /\ i < max_attempts) =>
      \/ FollowedByAttempt(i)
      \/ /\ Observed.pc = "sleep_delay"
         /\ Observed.attempt = i
         /\ Observed.sleeping = Delay(i)

\* C13 (amended): a timeout is not among the retried faults: the attempt
\* that timed out is the last one, the fetch raises the timeout at once
\* without waiting, and get_restaurant_data does not return.
C13_TimeoutIsFatal ==
  \A i \in 1..Len(hist) :
    TimedOut(i) =>
      /\ i = Len(hist)
      /\ Observed.pc = "raised"
      /\ Observed.raised = hist[i].fault
      /\ WaitAfter(i) = 0
      /\ agg_pc # "returned"

\* C13 witness: a connect failure was retried, the second attempt timed out
\* and ended the fetch with attempts remaining.
C13_Witness ==
  /\ Attempts = 2
  /\ hist[1].fault.kind = "ConnectError"
  /\ TimedOut(2)
  /\ Observed.pc = "raised"
  /\ Observed.raised.kind = "ReadTimeout"

\* C18 (as claimed): once the attempt after a 429 without Retry-After has
\* been issued, the time waited in between is exactly the backoff delay
\* exponential_backoff_factor * 2^attempt, as after a 503.
C18_NoHeaderWaitsBackoffOnly ==
  \A i \in 1..Len(hist) :
    (/\ FollowedByAttempt(i)
     /\ hist[i].fault.kind = "HTTPStatusError"
     /\ hist[i].fault.status = 429
     /\ hist[i].fault.retry_after = NoHeader)
      => WaitAfter(i) = exponential_backoff_factor * 2 ^ i

\* Vocabulary of the claims about the requests of one call.
Later == Pages \ {1}

Pending(p) == tasks[p].pc \in {"request", "sleep_retry_after", "sleep_delay"}

Ended == agg_pc \in {"returned", "raised"}

\* C14: no fetch of a page >= 2 exists before the fetch of page 1 returned,
\* and when the fetch of page 1 ended in a fault none ever exists.
C14_PageOneBeforeFanOut ==
  /\ agg_pc = "page1" => \A p \in Later : tasks[p].pc = "none"
  /\ (\E p \in Later : tasks[p].pc # "none") =>
       /\ tasks[1].pc = "returned"
       /\ response = tasks[1].value
  /\ tasks[1].pc # "returned" => done_order = <<>> /\ first_failed = 0
  /\ tasks[1].pc = "raised" =>
       /\ agg_pc = "raised"
       /\ \A p \in Later : tasks[p].pc = "none"

\* C14 witness: the fetch of page 1 exhausted its attempts, the program is
\* over and no other page was ever requested.
C14_Witness ==
  /\ tasks[1].pc = "raised"
  /\ tasks[1].raised.status = 503
  /\ loop = "closed"
  /\ \A p \in Later : tasks[p].pc = "none"

\* C19: whenever get_restaurant_data failed, the fault it raised is the
\* fault with which one of its page fetches ended, page 1's or that of the
\* first concurrent fetch that failed; it is never a wrapper around it.
C19_FaultOfAPageFetch ==
  agg_pc = "raised" =>
    /\ error # NoFault
    /\ error.kind \notin {"MaxAttemptsFailed", "ExceptionGroup"}
    /\ \E p \in Pages : tasks[p].pc = "raised" /\ tasks[p].raised = error
    /\ tasks[1].pc = "raised" => error = tasks[1].raised
    /\ tasks[1].pc # "raised" => error = tasks[first_failed].raised

\* C19 witness: page 3's fetch exhausted its attempts on 503 after page 2's
\* returned, and get_restaurant_data raised that HTTP status error.
C19_Witness ==
  /\ agg_pc = "raised"
  /\ tasks[2].pc = "returned"
  /\ first_failed = 3
  /\ error.kind = "HTTPStatusError"
  /\ error.status = 503

\* C20: whenever get_restaurant_data has returned or failed the client is
\* closed; a closed client stays closed, and from then on no fetch gets a
\* response or issues a request, that is, holds or acquires a connection.
C20_ClientClosedOnEveryExit ==
  [][/\ agg_pc' \in {"returned", "raised"} => client' = "closed"
     /\ client = "closed" =>
          /\ client' = "closed"
          /\ \A p \in Pages :
               /\ tasks'[p].pc = "request" => tasks[p].pc = "request"
               /\ tasks'[p].pc = "returned" => tasks[p].pc = "returned"]_vars

\* C20 witness: get_restaurant_data failed with page 3's fault while page
\* 2's fetch was waiting; the client is closed, and page 2's fetch woke up
\* to issue its next attempt and was refused.
C20_Witness ==
  /\ agg_pc = "raised"
  /\ client = "closed"
  /\ first_failed = 3
  /\ tasks[2].pc = "raised"
  /\ tasks[2].raised.kind = "RuntimeError"

\* Steps a fetch frame can still take at most: per attempt the request, the
\* Retry-After sleep and the backoff sleep.
StepsLeft(t) ==
  CASE t.pc = "request" -> 3 * (max_attempts - t.attempt) + 3
    [] t.pc = "sleep_retry_after" -> 3 * (max_attempts - t.attempt) + 2
    [] t.pc = "sleep_delay" -> 3 * (max_attempts - t.attempt) + 1
    [] OTHER -> 0

RECURSIVE StepsLeftOfPages(_)
StepsLeftOfPages(n) == IF n = 0 THEN 0 ELSE StepsLeftOfPages(n - 1) + StepsLeft(tasks[n])

\* Steps the whole call can still take at most: those of its fetches, the
\* fetches page 1 may still fan out, and the resumption from gather.
StepsLeftOfCall ==
  StepsLeftOfPages(MaxPages)
    + (IF agg_pc = "page1" THEN 3 * max_attempts * (MaxPages - 1) ELSE 0)
    + (IF Ended THEN 0 ELSE 1)

\* Every fetch that was started has ended by returning or by raising, and
\* so has get_restaurant_data.
AllOver ==
  /\ Ended
  /\ \A p \in Pages : tasks[p].pc \in {"none", "returned", "raised"}
  /\ \A p \in Pages : (tasks[p].pc = "raised") = (tasks[p].raised # NoFault)

\* C17: as long as the event loop runs and every request and every sleep
\* comes to its end, every page fetch ends by returning or by raising and
\* get_restaurant_data returns or raises: every step of the program uses up
\* one of a bounded number of steps, and as long as a fetch or the call has
\* not ended a step can be taken.
C17_EveryFetchTerminates ==
  [][/\ StepsLeftOfCall' < StepsLeftOfCall
     /\ StepsLeftOfCall' >= 0
     /\ (AllOver \/ ENABLED NextRunning)']_vars

\* C17 witness: get_restaurant_data raised the 503 on which page 2's fetch
\* gave up, page 3's fetch returned, and no fetch is left pending.
C17_Witness ==
  /\ agg_pc = "raised"
  /\ first_failed = 2
  /\ tasks[2].raised.status = 503
  /\ tasks[3].pc = "returned"
  /\ \A p \in Pages : ~Pending(p)

\* Vocabulary of the claims about the connection limit.
\* Connections of call c's pool that carry a request.
BusyConnections(c) ==
  IF http2 THEN (IF calls[c].in_flight > 0 THEN 1 ELSE 0) ELSE calls[c].in_flight

RECURSIVE SumOver(_, _)
SumOver(f, S) ==
  IF S = {} THEN 0 ELSE LET c == CHOOSE x \in S : TRUE IN f[c] + SumOver(f, S \ {c})

InFlightOverall == SumOver([c \in Calls |-> calls[c].in_flight], Calls)

BusyOverall == SumOver([c \in Calls |-> BusyConnections(c)], Calls)

\* C15 (as claimed): within one call at most max_connections page requests
\* are in flight at any moment.
C15_InFlightWithinLimit ==
  \A c \in Calls : calls[c].in_flight <= max_connections

\* C15 (amended): within one call at most max_connections connections carry
\* requests; over HTTP/1.1 that bounds the requests in flight, and a request
\* beyond the limit waits until another is answered; no request is lost;
\* over HTTP/2 all the requests of the call may be in flight at once.
C15_ConnectionsWithinLimit ==
  \A c \in Calls :
    /\ BusyConnections(c) <= max_connections
    /\ ~http2 => calls[c].in_flight <= max_connections
    /\ (~http2 /\ calls[c].in_flight = max_connections) => ~ENABLED RequestSent(c)
    /\ calls[c].pc = "gather" =>
         calls[c].queued + calls[c].in_flight + calls[c].answered = calls[c].total_pages
    /\ calls[c].pc = "returned" =>
         /\ calls[c].answered = calls[c].total_pages
         /\ calls[c].queued = 0
         /\ calls[c].in_flight = 0

\* C15 witness: over HTTP/1.1 a call of twelve pages has ten requests in
\* flight and the eleventh waiting.
C15_Witness ==
  /\ ~http2
  /\ calls[1].total_pages = 12
  /\ calls[1].in_flight = max_connections
  /\ calls[1].queued = 1

\* C16 (as claimed): even over HTTP/1.1 the requests in flight of all the
\* overlapping calls together never exceed max_connections.
C16_SharedHardCap ==
  ~http2 => InFlightOverall <= max_connections

\* C16 (amended): each call has the pool of its own client, so the limit
\* holds for each call by itself: the connections carrying requests of all
\* the overlapping calls together never exceed max_connections times the
\* number of calls, and a call whose pool is full is not kept from sending
\* by the requests of another call.
C16_LimitPerCall ==
  /\ BusyOverall <= max_connections * Cardinality(Calls)
  /\ \A c \in Calls :
       (/\ calls[c].pc = "gather"
        /\ calls[c].queued > 0
        /\ calls[c].in_flight < max_connections) => ENABLED RequestSent(c)

\* C16 witness: over HTTP/1.1 two overlapping calls have ten requests in
\* flight each.
C16_Witness ==
  /\ ~http2
  /\ calls[1].in_flight = max_connections
  /\ calls[2].in_flight = max_connections

\* C23: no wait follows the final attempt: when the max_attempts-th attempt
\* failed with a retryable fault, a 429 with Retry-After included, the fetch
\* has raised that fault and slept nothing after it; every sleep follows an
\* attempt before the last one, and once the fetch is over every sleep it
\* made was followed by an attempt.
C23_NoWaitAfterFinalAttempt ==
  /\ \A i \in 1..Len(hist) :
       (i = max_attempts /\ TransientFault(hist[i].fault)) =>
         /\ Observed.pc = "raised"
         /\ Observed.raised = hist[i].fault
         /\ WaitAfter(i) = 0
  /\ \A k \in 1..Len(sleeps) : sleeps[k][1] < max_attempts
  /\ Observed.pc \in {"sleep_retry_after", "sleep_delay"} =>
       Observed.attempt < max_attempts
  /\ Observed.pc \in {"returned", "raised"} =>
       \A k \in 1..Len(sleeps) : sleeps[k][1] < Attempts

\* C23 witness: the third attempt was answered 429 with Retry-After: 5 after
\* two retried faults, and the fetch raised it having slept only after the
\* first and the second attempt.
C23_Witness ==
  /\ Attempts = max_attempts
  /\ hist[1].fault.status = 429
  /\ hist[3].fault.status = 429
  /\ hist[3].fault.retry_after = <<5>>
  /\ Observed.pc = "raised"
  /\ Observed.raised.status = 429
  /\ Len(sleeps) = 3
  /\ WaitAfter(3) = 0

\* No attempt of the observed fetch met a fault (the other fetches meet
\* none in these runs).
NoFaults == \A i \in 1..Len(hist) : hist[i].ok

\* C21: in a run without faults every fetch makes one attempt and no sleep,
\* no page beyond page 1's total_pages is requested, and when
\* get_restaurant_data has returned, the fetch of each page 1..total_pages
\* has returned from its single request and no other page was requested;
\* with total_pages = 1 the result is page 1's records.
C21_OneRequestPerPage ==
  NoFaults =>
    /\ Attempts <= 1
    /\ sleeps = <<>>
    /\ agg_pc # "raised"
    /\ \A p \in Pages : Pending(p) => tasks[p].pc = "request" /\ tasks[p].attempt = 1
    /\ \A p \in Later : tasks[p].pc # "none" => p <= response.total_pages
    /\ agg_pc = "returned" =>
         /\ Attempts = 1
         /\ \A p \in Pages :
              tasks[p].pc = (IF p <= response.total_pages THEN "returned" ELSE "none")
         /\ response.total_pages = 1 => result = tasks[1].value.data

\* C21 witness: page 1 reported two pages, both fetches returned from their
\* first attempt and get_restaurant_data returned; page 3 was not requested.
C21_Witness ==
  /\ NoFaults
  /\ obs = 2
  /\ Attempts = 1
  /\ response.total_pages = 2
  /\ agg_pc = "returned"
  /\ tasks[3].pc = "none"

\* C22: the list get_restaurant_data hands to the selection is never empty:
\* a fetch returns only a page with records, and a returned result begins
\* with the records of page 1, at least one, so the first record of the
\* sorted list exists; a fetch that got an empty page raised and nothing
\* was returned.
C22_ResultNeverEmpty ==
  /\ \A p \in Pages : tasks[p].pc = "returned" => Len(tasks[p].value.data) >= 1
  /\ agg_pc = "returned" =>
       /\ Len(result) >= 1
       /\ Len(response.data) >= 1
       /\ response = tasks[1].value
       /\ SubSeq(result, 1, Len(response.data)) = response.data
       /\ \A p \in Pages : tasks[p].raised.kind # "NoDataError"

\* C22 witness: two pages of one record each were returned as a result of
\* two records.
C22_Witness ==
  /\ agg_pc = "returned"
  /\ response.total_pages = 2
  /\ Len(response.data) = 1
  /\ Len(result) = 2

====
